---- MODULE Spec2Model ----
(***************************************************************************)
(* Model of bot.py: the per-user request queue (USER_QUEUES,               *)
(* USER_PROCESSING), the dispatcher chat(), the worker coroutine           *)
(* process_user_queue() and the sqlite conversation store it writes.       *)
(*                                                                         *)
(* The program runs on one asyncio event loop: a coroutine runs without    *)
(* interruption from one await to the next, so every action below is the   *)
(* code between two consecutive suspension points.  A task made by         *)
(* asyncio.create_task() does not run its first statement until the loop   *)
(* schedules it, which is a step of its own (Begin).                       *)
(*                                                                         *)
(* A string is modelled by the record [chat, of, len]: which text it is    *)
(* (the chat and id of the Telegram message it came with or answers) and   *)
(* its length.  Telegram numbers the messages of a chat, so a message id   *)
(* is unique within its user's private chat, and the per-user variables    *)
(* are keyed by user id.                                                   *)
(*                                                                         *)
(* The runs of the bot (Spec, FairSpec, RecoverySpec) happen within one    *)
(* second of the wall clock: ts is int(time.time()), get_messages orders   *)
(* by it, and rows of equal ts come back in rowid order.  StoreSpec moves  *)
(* the clock between the appends; TrimSpec runs trim_messages by itself.   *)
(***************************************************************************)
EXTENDS Integers, Sequences, FiniteSets, TLC

(* ------------------------------ bounds --------------------------------- *)
\* number of text messages the users send in a run, all users together
MaxReq == 2
\* number of /clear commands in a run
MaxClear == 1
\* number of store, gateway and backend calls that raise in a run
MaxFaults == 1

\* the users (Telegram user ids; a private chat's id is the user's id)
Users == {1, 2}
\* lengths of the texts the users send: Telegram delivers a text of at most
\* 4096 characters
TextLens == {4096}
\* length of the answers the backend gives
AnswerLen == 5000

(* ------------------------- program constants --------------------------- *)
TOKEN_THRESHOLD == 12000
DEFAULT_MODEL == "llava"
\* SQL NULL / Python None in user_settings.active_conversation_id
NULL == 0

(* ----------------- inputs of the calls made on their own -------------- *)
\* number of rows appended to a conversation before it is read back
MaxRows == 3
\* the values int(time.time()) takes are 0..MaxClock
MaxClock == 2
\* number of messages in a history handed to trim_messages on its own
MaxHist == 4
\* content lengths of the messages in those histories
ContentLens == {3000, 4000, 5000, 6000}
\* values of max_chars in those calls
Budgets == {5000, TOKEN_THRESHOLD}

VARIABLES
    USER_QUEUES,      \* dict: user id -> deque of queued requests
    USER_PROCESSING,  \* set of user ids
    tasks,            \* user id -> the process_user_queue tasks made for it, in order of creation
    user_settings,    \* table user_settings: user id -> row
    conversations,    \* table conversations: set of rows
    next_cid,         \* AUTOINCREMENT counter of conversations.id
    messages,         \* table messages: conversation_id -> its rows in rowid order
    clock,            \* int(time.time())
    next_message_id,  \* user id -> id Telegram gives the user's next message
    notices,          \* user id -> message ids answered with the "already answering" notice
    backend_calls,    \* history: user id -> message ids call_lm_chat was started for
    delivered,        \* history: user id -> message ids whose answer was edited in
    clears,           \* history: number of /clear commands so far
    left_behind,      \* history: user id -> message ids that sat in the deque when a worker of the user ended on an exception
    call,             \* a store or trimmer function called on its own: <<arguments>>, or <<>>
    ret               \* <<what that call returned>>, or <<>> before it returns

vars == <<USER_QUEUES, USER_PROCESSING, tasks, user_settings, conversations,
          next_cid, messages, clock, next_message_id, notices, backend_calls,
          delivered, clears, left_behind, call, ret>>

\* the variables of the calls made outside the bot's event loop
pure == <<call, ret>>

store == <<user_settings, conversations, next_cid, messages>>

\* the variables of the event loop and the histories kept about it
bot == <<USER_QUEUES, USER_PROCESSING, tasks, next_message_id, notices,
         backend_calls, delivered, clears, left_behind>>

(* ------------------------------ helpers -------------------------------- *)
NoItem ==
    [text |-> [chat |-> 0, of |-> 0, len |-> 0], message_id |-> 0, chat_id |-> 0]

\* the dict entry a chat() call appends to the deque
QueuedRequest(uid, mid, len) ==
    [text |-> [chat |-> uid, of |-> mid, len |-> len], message_id |-> mid,
     chat_id |-> uid]

\* a coroutine object of process_user_queue(user_id, context) before its first step
NewTask == [pc |-> "created", item |-> NoItem, cid |-> NULL, msgs |-> <<>>]

\* a task whose coroutine has returned or raised; item is kept as the request it
\* was working on when it ended (NoItem after a normal return)
Ended(task, how, item) ==
    [task EXCEPT !.pc = how, !.item = item, !.cid = NULL, !.msgs = <<>>]

Live(task) == task.pc \in {"created", "send", "backend", "edit"}

Failed(task) == task.pc \in {"err_store", "err_send", "err_backend", "err_edit"}

Reverse(s) == [i \in 1..Len(s) |-> s[Len(s) + 1 - i]]

RECURSIVE SumOver(_, _)
SumOver(f, S) ==
    IF S = {} THEN 0
    ELSE LET x == CHOOSE y \in S : TRUE IN f[x] + SumOver(f, S \ {x})

(* ------------------------------- store --------------------------------- *)
\* upsert_user: INSERT INTO user_settings ... ON CONFLICT DO NOTHING
upsert_user(settings, uid) ==
    IF uid \in DOMAIN settings THEN settings
    ELSE [u \in DOMAIN settings \cup {uid} |->
            IF u = uid
            THEN [default_model |-> DEFAULT_MODEL, active_conversation_id |-> NULL]
            ELSE settings[u]]

get_settings(settings, uid) ==
    [model |-> settings[uid].default_model,
     cid |-> settings[uid].active_conversation_id]

set_active_conversation(settings, uid, cid) ==
    [u \in DOMAIN settings |->
        IF u = uid THEN [settings[u] EXCEPT !.active_conversation_id = cid]
        ELSE settings[u]]

create_conversation(convs, id, uid, model) ==
    convs \cup {[id |-> id, user_id |-> uid, model |-> model]}

\* SELECT ... FROM messages WHERE conversation_id=cid, in rowid order
RowsOf(table, cid) == IF cid \in DOMAIN table THEN table[cid] ELSE <<>>

append_message(table, cid, role, content, now) ==
    [c \in DOMAIN table \cup {cid} |->
        IF c = cid
        THEN Append(RowsOf(table, cid),
                    [role |-> role, content |-> content, ts |-> now])
        ELSE table[c]]

\* ORDER BY ts: row i comes after the rows of smaller ts and, among the rows
\* of its own ts, after those of smaller rowid (sqlite's sorter keeps rows of
\* equal ts in scan order, which is rowid order)
OrderByTs(rows) ==
    LET Before(j, i) ==
            \/ rows[j].ts < rows[i].ts
            \/ rows[j].ts = rows[i].ts /\ j < i
        Rank(i) == Cardinality({j \in 1..Len(rows) : Before(j, i)}) + 1
    IN  [k \in 1..Len(rows) |-> rows[CHOOSE i \in 1..Len(rows) : Rank(i) = k]]

get_messages(table, cid) ==
    LET sel == OrderByTs(RowsOf(table, cid))
    IN  [i \in 1..Len(sel) |-> [role |-> sel[i].role, content |-> sel[i].content]]

\* clear_user_history: the three statements of its one transaction
clear_messages(table, convs, uid) ==
    LET ids == {c.id : c \in {c \in convs : c.user_id = uid}}
    IN  [c \in DOMAIN table \ ids |-> table[c]]

clear_conversations(convs, uid) == {c \in convs : c.user_id # uid}

clear_active(settings, uid) ==
    [u \in DOMAIN settings |->
        IF u = uid THEN [settings[u] EXCEPT !.active_conversation_id = NULL]
        ELSE settings[u]]

(* ------------------------------- utils --------------------------------- *)
\* faulty variant of trim_loop: `>=` for `>`
RECURSIVE trim_loopStrict(_, _, _, _, _)
trim_loopStrict(msgs, i, total, result, max_chars) ==
    IF i = 0 THEN result
    ELSE LET t == total + msgs[i].content.len
         IN  IF t >= max_chars THEN result
             ELSE trim_loopStrict(msgs, i - 1, t, Append(result, msgs[i]),
                                  max_chars)

\* faulty variant of trim_loop: the message is appended before the test
RECURSIVE trim_loopLate(_, _, _, _, _)
trim_loopLate(msgs, i, total, result, max_chars) ==
    IF i = 0 THEN result
    ELSE LET t == total + msgs[i].content.len
         IN  IF t > max_chars THEN Append(result, msgs[i])
             ELSE trim_loopLate(msgs, i - 1, t, Append(result, msgs[i]),
                                max_chars)

\* the for loop of trim_messages: i is the index reversed(messages) is at
RECURSIVE trim_loop(_, _, _, _, _)
trim_loop(msgs, i, total, result, max_chars) ==
    IF i = 0 THEN result
    ELSE LET t == total + msgs[i].content.len
         IN  IF t > max_chars THEN result
             ELSE trim_loop(msgs, i - 1, t, Append(result, msgs[i]), max_chars)

trim_messages(msgs, max_chars) ==
    Reverse(trim_loop(msgs, Len(msgs), 0, <<>>, max_chars))

(* -------------------------- runtime state ------------------------------ *)
\* `uid in USER_PROCESSING`
IsProcessing(processing, uid) == uid \in processing

\* faulty variant of discard: USER_PROCESSING.clear()
discardAll(processing, uid) == {}

\* the finally block: USER_PROCESSING.discard(user_id)
discard(processing, uid) == processing \ {uid}

\* faulty variant of QueueNonEmpty: the loop stops with one request left
QueueLong(q) == Len(q) > 1

\* the loop test `while USER_QUEUES[user_id]`
QueueNonEmpty(q) == q # <<>>

\* USER_QUEUES[uid].append(...), after `if uid not in USER_QUEUES`
enqueue(queues, uid, item) ==
    [u \in DOMAIN queues \cup {uid} |->
        IF u = uid
        THEN Append(IF uid \in DOMAIN queues THEN queues[uid] ELSE <<>>, item)
        ELSE queues[u]]

\* faulty variant of popleft: the head is read and stays in the deque
popleftPeek(q) == q

\* deque.popleft(): what is left of the deque
popleft(q) == Tail(q)

\* history: the requests in deque q are noted as left behind by a worker of
\* uid that ends on an exception
abandon(left, uid, q) ==
    [left EXCEPT ![uid] = @ \cup {q[i].message_id : i \in 1..Len(q)}]

\* where a store call of one loop iteration can raise
StorePoints ==
    {"get_settings", "create_conversation", "set_active_conversation",
     "append_message"}

\* the bot when main() starts polling: empty registry, empty tables
Start ==
    /\ USER_QUEUES = [u \in {} |-> <<>>]
    /\ USER_PROCESSING = {}
    /\ tasks = [u \in Users |-> <<>>]
    /\ user_settings = [u \in {} |-> NULL]
    /\ conversations = {}
    /\ next_cid = 1
    /\ messages = [c \in {} |-> <<>>]
    /\ clock = 0
    /\ next_message_id = [u \in Users |-> 1]
    /\ notices = [u \in Users |-> {}]
    /\ backend_calls = [u \in Users |-> {}]
    /\ delivered = [u \in Users |-> {}]
    /\ clears = 0
    /\ left_behind = [u \in Users |-> {}]

Init ==
    /\ Start
    /\ call = <<>>
    /\ ret = <<>>

(* ------------------------------ chat() --------------------------------- *)
\* text messages received so far
Received == SumOver(next_message_id, Users) - Cardinality(Users)

\* A text message of `len` characters from user uid.  The branch that spawns
\* has no await, and the other one awaits only the notice, after which chat()
\* does nothing more: either way the handler is one step.
chat(uid, len) ==
    LET mid == next_message_id[uid] IN
    /\ user_settings' = upsert_user(user_settings, uid)
    /\ USER_QUEUES' = enqueue(USER_QUEUES, uid, QueuedRequest(uid, mid, len))
    /\ IF IsProcessing(USER_PROCESSING, uid)
       THEN /\ notices' = [notices EXCEPT ![uid] = @ \cup {mid}]
            /\ tasks' = tasks
       ELSE /\ tasks' = [tasks EXCEPT ![uid] = Append(@, NewTask)]
            /\ notices' = notices
    /\ next_message_id' = [next_message_id EXCEPT ![uid] = mid + 1]
    /\ UNCHANGED <<USER_PROCESSING, conversations, next_cid, messages, clock,
                   backend_calls, delivered, clears, left_behind, pure>>

\* chat() for one of the MaxReq texts of a run
Chat(uid, len) ==
    /\ Received < MaxReq
    /\ chat(uid, len)

\* the tasks made for user uid so far
TaskIds(uid) == 1..Len(tasks[uid])

(* ------------------------ process_user_queue() ------------------------- *)
\* From the loop test to the next suspension point (the await of send_message)
\* or to the end of the coroutine, for task t of user uid.  `processing` is
\* USER_PROCESSING as the caller leaves it; outcome is "ok" or the store call
\* that raises.  Every store function is one transaction, so the calls before
\* the failing one stay committed and the failing one leaves nothing.
Iterate(uid, t, processing, outcome) ==
    LET task == tasks[uid][t]
        q == USER_QUEUES[uid]
    IN  IF ~QueueNonEmpty(q)
        THEN /\ outcome = "ok"
             /\ USER_PROCESSING' = discard(processing, uid)
             /\ tasks' = [tasks EXCEPT ![uid][t] = Ended(task, "done", NoItem)]
             /\ UNCHANGED <<USER_QUEUES, store, left_behind>>
        ELSE LET item == Head(q)
                 s == get_settings(user_settings, uid)
                 fresh == s.cid = NULL
                 cid == IF fresh THEN next_cid ELSE s.cid
                 created == outcome \notin {"get_settings", "create_conversation"}
                 activated == created /\ outcome # "set_active_conversation"
             IN  /\ outcome \in {"create_conversation", "set_active_conversation"}
                        => fresh
                 /\ USER_QUEUES' = [USER_QUEUES EXCEPT ![uid] = popleft(q)]
                 /\ conversations' =
                        IF fresh /\ created
                        THEN create_conversation(conversations, cid, uid, s.model)
                        ELSE conversations
                 /\ next_cid' = IF fresh /\ created THEN next_cid + 1 ELSE next_cid
                 /\ user_settings' =
                        IF fresh /\ activated
                        THEN set_active_conversation(user_settings, uid, cid)
                        ELSE user_settings
                 /\ IF outcome = "ok"
                    THEN /\ messages' = append_message(messages, cid, "user",
                                                       item.text, clock)
                         /\ tasks' = [tasks EXCEPT ![uid][t] =
                                [task EXCEPT !.pc = "send", !.item = item,
                                             !.cid = cid, !.msgs = <<>>]]
                         /\ USER_PROCESSING' = processing
                         /\ left_behind' = left_behind
                    ELSE /\ messages' = messages
                         /\ tasks' = [tasks EXCEPT ![uid][t] =
                                            Ended(task, "err_store", item)]
                         /\ USER_PROCESSING' = discard(processing, uid)
                         /\ left_behind' = abandon(left_behind, uid, popleft(q))

\* every exception ends the task it is raised in, so the calls that have raised
\* are as many as the tasks that ended on one
CanFail ==
    Cardinality({ut \in UNION {{<<u, t>> : t \in TaskIds(u)} : u \in Users} :
                    Failed(tasks[ut[1]][ut[2]])}) < MaxFaults

\* faulty variant of Raise: the exception leaves the coroutine with no finally block
RaiseNoFinally(uid, t, how) ==
    /\ CanFail
    /\ tasks' = [tasks EXCEPT ![uid][t] = Ended(@, how, @.item)]
    /\ USER_PROCESSING' = USER_PROCESSING
    /\ left_behind' = abandon(left_behind, uid, USER_QUEUES[uid])

\* an exception that leaves the coroutine through the finally block
Raise(uid, t, how) ==
    /\ CanFail
    /\ tasks' = [tasks EXCEPT ![uid][t] = Ended(@, how, @.item)]
    /\ USER_PROCESSING' = discard(USER_PROCESSING, uid)
    /\ left_behind' = abandon(left_behind, uid, USER_QUEUES[uid])

\* the first step of the task: USER_PROCESSING.add, then the loop
Begin(uid, t) ==
    /\ tasks[uid][t].pc = "created"
    /\ Iterate(uid, t, USER_PROCESSING \cup {uid}, "ok")
    /\ UNCHANGED <<clock, next_message_id, notices, backend_calls, delivered,
                   clears, pure>>

BeginStoreFail(uid, t, point) ==
    /\ tasks[uid][t].pc = "created"
    /\ CanFail
    /\ Iterate(uid, t, USER_PROCESSING \cup {uid}, point)
    /\ UNCHANGED <<clock, next_message_id, notices, backend_calls, delivered,
                   clears, pure>>

\* send_message returned: get_messages, trim_messages, and call_lm_chat is
\* handed to a thread
SendReturn(uid, t) ==
    /\ tasks[uid][t].pc = "send"
    /\ \E history \in {get_messages(messages, tasks[uid][t].cid)} :
        \E msgs \in {trim_messages(history, TOKEN_THRESHOLD)} :
            tasks' = [tasks EXCEPT ![uid][t] =
                            [@ EXCEPT !.pc = "backend", !.msgs = msgs]]
    /\ backend_calls' = [backend_calls EXCEPT ![uid] =
                            @ \cup {tasks[uid][t].item.message_id}]
    /\ UNCHANGED <<USER_QUEUES, USER_PROCESSING, store, clock, next_message_id,
                   notices, delivered, clears, left_behind, pure>>

\* send_message raised
SendFail(uid, t) ==
    /\ tasks[uid][t].pc = "send"
    /\ Raise(uid, t, "err_send")
    /\ UNCHANGED <<USER_QUEUES, store, clock, next_message_id, notices,
                   backend_calls, delivered, clears, pure>>

\* send_message returned and get_messages raised
SendReturnStoreFail(uid, t) ==
    /\ tasks[uid][t].pc = "send"
    /\ Raise(uid, t, "err_store")
    /\ UNCHANGED <<USER_QUEUES, store, clock, next_message_id, notices,
                   backend_calls, delivered, clears, pure>>

\* data["choices"][0]["message"]["content"] of the response to the request
answer(item) ==
    [chat |-> item.chat_id, of |-> item.message_id, len |-> AnswerLen]

\* call_lm_chat returned a well-formed response: the answer is persisted and
\* edit_text is awaited
BackendReturn(uid, t) ==
    /\ tasks[uid][t].pc = "backend"
    /\ messages' = append_message(messages, tasks[uid][t].cid, "assistant",
                        answer(tasks[uid][t].item), clock)
    /\ tasks' = [tasks EXCEPT ![uid][t] = [@ EXCEPT !.pc = "edit", !.msgs = <<>>]]
    /\ UNCHANGED <<USER_QUEUES, USER_PROCESSING, user_settings, conversations,
                   next_cid, clock, next_message_id, notices, backend_calls,
                   delivered, clears, left_behind, pure>>

\* faulty variant of BackendFail: the error text is stored as the answer
BackendFailPersist(uid, t) ==
    /\ tasks[uid][t].pc = "backend"
    /\ CanFail
    /\ messages' = append_message(messages, tasks[uid][t].cid, "assistant",
                        answer(tasks[uid][t].item), clock)
    /\ tasks' = [tasks EXCEPT ![uid][t] = Ended(@, "err_backend", @.item)]
    /\ USER_PROCESSING' = discard(USER_PROCESSING, uid)
    /\ left_behind' = abandon(left_behind, uid, USER_QUEUES[uid])
    /\ UNCHANGED <<USER_QUEUES, user_settings, conversations, next_cid, clock,
                   next_message_id, notices, backend_calls, delivered, clears,
                   pure>>

\* call_lm_chat raised (connection, HTTP status, timeout), or its response has
\* no choices[0].message.content and the subscript raises
BackendFail(uid, t) ==
    /\ tasks[uid][t].pc = "backend"
    /\ Raise(uid, t, "err_backend")
    /\ UNCHANGED <<USER_QUEUES, store, clock, next_message_id, notices,
                   backend_calls, delivered, clears, pure>>

\* call_lm_chat returned and append_message raised
BackendReturnStoreFail(uid, t) ==
    /\ tasks[uid][t].pc = "backend"
    /\ Raise(uid, t, "err_store")
    /\ UNCHANGED <<USER_QUEUES, store, clock, next_message_id, notices,
                   backend_calls, delivered, clears, pure>>

\* faulty variant of EditReturn, `if` for `while`: the worker returns after its
\* first request
EditReturnOnce(uid, t) ==
    /\ tasks[uid][t].pc = "edit"
    /\ delivered' = [delivered EXCEPT ![uid] =
                        @ \cup {tasks[uid][t].item.message_id}]
    /\ tasks' = [tasks EXCEPT ![uid][t] = Ended(@, "done", NoItem)]
    /\ USER_PROCESSING' = discard(USER_PROCESSING, uid)
    /\ UNCHANGED <<USER_QUEUES, store, clock, next_message_id, notices,
                   backend_calls, clears, left_behind, pure>>

\* edit_text returned: the answer is on the user's screen, back to the loop test
EditReturn(uid, t) ==
    /\ tasks[uid][t].pc = "edit"
    /\ delivered' = [delivered EXCEPT ![uid] =
                        @ \cup {tasks[uid][t].item.message_id}]
    /\ Iterate(uid, t, USER_PROCESSING, "ok")
    /\ UNCHANGED <<clock, next_message_id, notices, backend_calls, clears, pure>>

EditReturnStoreFail(uid, t, point) ==
    /\ tasks[uid][t].pc = "edit"
    /\ CanFail
    /\ delivered' = [delivered EXCEPT ![uid] =
                        @ \cup {tasks[uid][t].item.message_id}]
    /\ Iterate(uid, t, USER_PROCESSING, point)
    /\ UNCHANGED <<clock, next_message_id, notices, backend_calls, clears, pure>>

\* edit_text raised
EditFail(uid, t) ==
    /\ tasks[uid][t].pc = "edit"
    /\ Raise(uid, t, "err_edit")
    /\ UNCHANGED <<USER_QUEUES, store, clock, next_message_id, notices,
                   backend_calls, delivered, clears, pure>>

(* ----------------------------- clear_cmd ------------------------------- *)
Clear(uid) ==
    /\ clears < MaxClear
    /\ messages' = clear_messages(messages, conversations, uid)
    /\ conversations' = clear_conversations(conversations, uid)
    /\ user_settings' = clear_active(user_settings, uid)
    /\ clears' = clears + 1
    /\ UNCHANGED <<USER_QUEUES, USER_PROCESSING, tasks, next_cid, clock,
                   next_message_id, notices, backend_calls, delivered,
                   left_behind, pure>>

(* --------------------------- specifications ---------------------------- *)
Next ==
    \/ \E uid \in Users, len \in TextLens : Chat(uid, len)
    \/ \E uid \in Users : \E t \in TaskIds(uid) : Begin(uid, t)
    \/ \E uid \in Users : \E t \in TaskIds(uid), p \in StorePoints :
            BeginStoreFail(uid, t, p)
    \/ \E uid \in Users : \E t \in TaskIds(uid) : SendReturn(uid, t)
    \/ \E uid \in Users : \E t \in TaskIds(uid) : SendFail(uid, t)
    \/ \E uid \in Users : \E t \in TaskIds(uid) : SendReturnStoreFail(uid, t)
    \/ \E uid \in Users : \E t \in TaskIds(uid) : BackendReturn(uid, t)
    \/ \E uid \in Users : \E t \in TaskIds(uid) : BackendFail(uid, t)
    \/ \E uid \in Users : \E t \in TaskIds(uid) : BackendReturnStoreFail(uid, t)
    \/ \E uid \in Users : \E t \in TaskIds(uid) : EditReturn(uid, t)
    \/ \E uid \in Users : \E t \in TaskIds(uid), p \in StorePoints :
            EditReturnStoreFail(uid, t, p)
    \/ \E uid \in Users : \E t \in TaskIds(uid) : EditFail(uid, t)
    \/ \E uid \in Users : Clear(uid)

Spec == Init /\ [][Next]_vars

\* The runs in which no store, gateway or backend call raises, under the
\* scheduling of the event loop: a task that is ready to run is run, and every
\* awaited call returns.
Step(uid, t) ==
    /\ t \in TaskIds(uid)
    /\ \/ Begin(uid, t)
       \/ SendReturn(uid, t)
       \/ BackendReturn(uid, t)
       \/ EditReturn(uid, t)

NextNoFault ==
    \/ \E uid \in Users, len \in TextLens : Chat(uid, len)
    \/ \E uid \in Users : \E t \in TaskIds(uid) : Step(uid, t)
    \/ \E uid \in Users : Clear(uid)

FairSpec ==
    /\ Init
    /\ [][NextNoFault]_vars
    /\ \A uid \in Users : \A t \in 1..MaxReq : WF_vars(Step(uid, t))

(* ------------------- one user, one more text message ------------------ *)
\* the user of the runs in which a worker is followed by another
RecoveryUser == 1

\* chat() for one of the MaxReq + 1 texts of such a run
ChatMore(uid, len) ==
    /\ Received < MaxReq + 1
    /\ chat(uid, len)

RecoveryNext ==
    \/ \E len \in TextLens : ChatMore(RecoveryUser, len)
    \/ \E t \in TaskIds(RecoveryUser) : Begin(RecoveryUser, t)
    \/ \E t \in TaskIds(RecoveryUser), p \in StorePoints :
            BeginStoreFail(RecoveryUser, t, p)
    \/ \E t \in TaskIds(RecoveryUser) : SendReturn(RecoveryUser, t)
    \/ \E t \in TaskIds(RecoveryUser) : SendFail(RecoveryUser, t)
    \/ \E t \in TaskIds(RecoveryUser) : SendReturnStoreFail(RecoveryUser, t)
    \/ \E t \in TaskIds(RecoveryUser) : BackendReturn(RecoveryUser, t)
    \/ \E t \in TaskIds(RecoveryUser) : BackendFail(RecoveryUser, t)
    \/ \E t \in TaskIds(RecoveryUser) : BackendReturnStoreFail(RecoveryUser, t)
    \/ \E t \in TaskIds(RecoveryUser) : EditReturn(RecoveryUser, t)
    \/ \E t \in TaskIds(RecoveryUser), p \in StorePoints :
            EditReturnStoreFail(RecoveryUser, t, p)
    \/ \E t \in TaskIds(RecoveryUser) : EditFail(RecoveryUser, t)

RecoverySpec == Init /\ [][RecoveryNext]_vars

(* ------------------------ trim_messages on its own --------------------- *)
\* a history as get_messages returns it: message i has length lens[i]
History(lens) ==
    [i \in 1..Len(lens) |->
        [role |-> IF i % 2 = 1 THEN "user" ELSE "assistant",
         content |-> [chat |-> 1, of |-> i, len |-> lens[i]]]]

TrimCalls ==
    {[messages |-> History(lens), max_chars |-> b] :
        lens \in UNION {[1..n -> ContentLens] : n \in 0..MaxHist},
        b \in Budgets}

TrimInit ==
    /\ Start
    /\ call \in {<<c>> : c \in TrimCalls}
    /\ ret = <<>>

\* trim_messages(messages, max_chars) runs and returns
TrimReturn ==
    /\ call # <<>>
    /\ ret = <<>>
    /\ ret' = <<trim_messages(call[1].messages, call[1].max_chars)>>
    /\ UNCHANGED <<bot, store, clock, call>>

TrimNext == TrimReturn

TrimSpec == TrimInit /\ [][TrimNext]_vars

(* --------------- append_message and get_messages on their own ---------- *)
\* the conversation the rows are appended to
StoreCid == 1

\* append_message(StoreCid, role, content): ts is the clock's reading
StoreAppend ==
    LET n == Len(RowsOf(messages, StoreCid)) + 1 IN
    /\ ret = <<>>
    /\ n <= MaxRows
    /\ messages' = append_message(messages, StoreCid,
                        IF n % 2 = 1 THEN "user" ELSE "assistant",
                        [chat |-> 1, of |-> n, len |-> 1], clock)
    /\ UNCHANGED <<bot, user_settings, conversations, next_cid, clock, pure>>

\* time.time() reads the system clock, which runs on between two calls, may
\* stay within the same second, and can be set back
ClockSet(now) ==
    /\ ret = <<>>
    /\ now # clock
    /\ clock' = now
    /\ UNCHANGED <<bot, store, pure>>

\* get_messages(StoreCid) runs and returns
Fetch ==
    /\ ret = <<>>
    /\ ret' = <<get_messages(messages, StoreCid)>>
    /\ UNCHANGED <<bot, store, clock, call>>

StoreNext ==
    \/ StoreAppend
    \/ \E now \in 0..MaxClock : ClockSet(now)
    \/ Fetch

StoreSpec == Init /\ [][StoreNext]_vars

(* ------------------------------ properties ----------------------------- *)
LiveTasks(uid) == {t \in TaskIds(uid) : Live(tasks[uid][t])}

NoFault == \A uid \in Users : \A t \in TaskIds(uid) : ~Failed(tasks[uid][t])

\* the rows of table messages, of every conversation, that hold text m of chat uid
RowsAbout(uid, m) ==
    {ci \in UNION {{<<c, i>> : i \in DOMAIN messages[c]} : c \in DOMAIN messages} :
        /\ messages[ci[1]][ci[2]].content.chat = uid
        /\ messages[ci[1]][ci[2]].content.of = m}

\* C1: at every instant a user has at most one worker task that was created by
\* chat() and has not ended.
C1_AtMostOneWorker == \A uid \in Users : Cardinality(LiveTasks(uid)) <= 1

\* C2: answers come in submission order: while no call has raised, the backend
\* is called for a request only when every request the same user sent before
\* it has had its answer delivered.
C2_SubmissionOrder ==
    NoFault =>
        \A uid \in Users : \A r2 \in backend_calls[uid] : \A r1 \in 1..(r2 - 1) :
            r1 \in delivered[uid]

\* every request chat() has enqueued so far has had its answer delivered
AllAnswered ==
    \A uid \in Users : \A m \in 1..(next_message_id[uid] - 1) :
        m \in delivered[uid]

\* C3: when no call raises and tasks are scheduled fairly, no request stays
\* unanswered: from every state the run reaches a state in which every request
\* enqueued so far has been dequeued and answered (an answer once delivered
\* stays delivered, so each request is eventually answered).
C3_EveryRequestAnswered == []<>AllAnswered

\* C3 witness: a request that was enqueued while a worker held the flag (it got
\* the notice) has been answered.
C3_Witness == \E uid \in Users : notices[uid] \cap delivered[uid] # {}

\* C4: a backend or store failure does not stop the drain: the user's only
\* worker is not ended by such a failure while requests remain in the queue.
C4_FailureKeepsDraining ==
    [][\A uid \in Users : \A t \in TaskIds(uid) :
            (/\ LiveTasks(uid) = {t}
             /\ tasks'[uid][t].pc \in {"err_backend", "err_store"})
                => ~QueueNonEmpty(USER_QUEUES'[uid])]_vars

\* C5: whenever a user is in USER_PROCESSING, a worker task of that user exists:
\* no exit path of process_user_queue leaves the flag behind.
C5_FlagNeverStuck ==
    \A uid \in Users : IsProcessing(USER_PROCESSING, uid) => LiveTasks(uid) # {}

\* C5 witness: a worker has ended on an exception, no worker of its user is
\* left, and the user is not in USER_PROCESSING.
C5_Witness ==
    \E uid \in Users : \E t \in TaskIds(uid) :
        /\ Failed(tasks[uid][t])
        /\ LiveTasks(uid) = {}
        /\ ~IsProcessing(USER_PROCESSING, uid)

\* C6: a user is in USER_PROCESSING if and only if exactly one worker task of
\* that user is live.
C6_FlagIffOneWorker ==
    \A uid \in Users :
        IsProcessing(USER_PROCESSING, uid) <=> Cardinality(LiveTasks(uid)) = 1

\* C7: while no call has raised and no /clear has run, every conversation log
\* alternates user and assistant messages in submission order: row 2k-1 is the
\* k-th request's user message and row 2k its answer.
C7_AlternatingLog ==
    (NoFault /\ clears = 0) =>
        \A c \in DOMAIN messages : \A i \in 1..Len(messages[c]) :
            /\ messages[c][i].role = IF i % 2 = 1 THEN "user" ELSE "assistant"
            /\ messages[c][i].content.of = (i + 1) \div 2

\* C8: a request whose backend call failed has no assistant message in the log:
\* the log holds its user message (once, unless /clear deleted it) and nothing
\* else about it.
C8_NoAnswerAfterBackendFailure ==
    \A uid \in Users : \A t \in TaskIds(uid) :
        tasks[uid][t].pc = "err_backend" =>
            LET rows == RowsAbout(uid, tasks[uid][t].item.message_id) IN
            /\ \A ci \in rows : messages[ci[1]][ci[2]].role = "user"
            /\ Cardinality(rows) <= 1
            /\ clears = 0 => Cardinality(rows) = 1

\* C8 witness: the backend call of a request has failed and the request's user
\* message is in the log.
C8_Witness ==
    \E uid \in Users : \E t \in TaskIds(uid) :
        /\ tasks[uid][t].pc = "err_backend"
        /\ RowsAbout(uid, tasks[uid][t].item.message_id) # {}

\* C9: a request whose edit_text failed still has its answer delivered to the
\* user (by a fresh message).
C9_EditFailureFallsBack ==
    \A uid \in Users : \A t \in TaskIds(uid) :
        tasks[uid][t].pc = "err_edit" =>
            tasks[uid][t].item.message_id \in delivered[uid]

\* C10: a request whose 'Thinking...' send failed still gets its backend call.
C10_SendFailureNotFatal ==
    \A uid \in Users : \A t \in TaskIds(uid) :
        tasks[uid][t].pc = "err_send" =>
            tasks[uid][t].item.message_id \in backend_calls[uid]

\* the deque of uid, empty while the dict has no entry for uid
QueueOf(queues, uid) == IF uid \in DOMAIN queues THEN queues[uid] ELSE <<>>

\* the requests of uid that some worker has taken off the deque: a task holds
\* the request it took until the answer is delivered
Taken(uid) ==
    {tasks[uid][t].item.message_id :
        t \in {x \in TaskIds(uid) : tasks[uid][x].item # NoItem}}
        \cup delivered[uid]

\* the rows in which request m of uid is stored as a user message
UserRows(uid, m) ==
    {ci \in RowsAbout(uid, m) : messages[ci[1]][ci[2]].role = "user"}

\* C11: a queued request is consumed at most once, whatever the number of
\* workers: the deque only grows at the tail and shrinks at the head, a worker
\* takes nothing but the head it removes, no request is taken by a second
\* worker or a second time, none is stored twice as a user message and none is
\* sent to the backend twice.
C11_ConsumedAtMostOnce ==
    [][\A uid \in Users :
        LET q == QueueOf(USER_QUEUES, uid)
            after == QueueOf(USER_QUEUES', uid)
        IN  /\ \/ after = q
               \/ /\ Len(after) = Len(q) + 1
                  /\ SubSeq(after, 1, Len(q)) = q
               \/ /\ q # <<>>
                  /\ after = Tail(q)
                  /\ Cardinality({t \in TaskIds(uid) :
                        /\ tasks'[uid][t].item = Head(q)
                        /\ tasks[uid][t].item # Head(q)}) = 1
            /\ \A t \in TaskIds(uid) :
                    /\ tasks'[uid][t].item # tasks[uid][t].item
                    /\ tasks'[uid][t].item # NoItem
                    => /\ q # <<>>
                       /\ tasks'[uid][t].item = Head(q)
                       /\ after = Tail(q)
                       /\ Head(q).message_id \notin Taken(uid)
            /\ \A t \in TaskIds(uid) :
                    /\ tasks'[uid][t].pc = "backend"
                    /\ tasks[uid][t].pc # "backend"
                    => tasks[uid][t].item.message_id \notin backend_calls[uid]
            /\ messages' # messages =>
                    \A m \in 1..next_message_id[uid] :
                        Cardinality(UserRows(uid, m)') <= 1
      ]_vars

\* two workers of one user, each past its dequeue and holding a different request
C11_Witness ==
    \E uid \in Users : \E t1, t2 \in TaskIds(uid) :
        /\ t1 # t2
        /\ tasks[uid][t1].pc \in {"send", "backend", "edit"}
        /\ tasks[uid][t2].pc \in {"send", "backend", "edit"}
        /\ tasks[uid][t1].item # tasks[uid][t2].item

\* the characters in a list of messages
Total(ms) == SumOver([i \in DOMAIN ms |-> ms[i].content.len], DOMAIN ms)

\* C12: trim_messages returns the longest suffix of the history that fits the
\* budget: the result is the last Len(result) messages in their order, its
\* lengths sum to at most the budget, and it is either the whole history or
\* would exceed the budget with the next older message (so it is empty when
\* the newest message alone exceeds the budget).
C12_LongestSuffix ==
    call # <<>> /\ ret # <<>> =>
        LET h == call[1].messages
            out == ret[1]
            k == Len(h) - Len(out)
        IN  /\ k >= 0
            /\ out = SubSeq(h, k + 1, Len(h))
            /\ Total(out) <= call[1].max_chars
            /\ k = 0 \/ Total(SubSeq(h, k, Len(h))) > call[1].max_chars

\* a call returned a proper, non-empty suffix whose lengths sum to the budget
C12_Witness ==
    /\ call # <<>> /\ ret # <<>>
    /\ ret[1] # <<>>
    /\ Len(ret[1]) < Len(call[1].messages)
    /\ Total(ret[1]) = call[1].max_chars

\* the call of the example has returned: messages of 3000, 4000, 5000 and 6000
\* characters, oldest first, and the default budget
C13_Witness ==
    /\ call = <<[messages |-> History(<<3000, 4000, 5000, 6000>>),
                 max_chars |-> TOKEN_THRESHOLD]>>
    /\ ret # <<>>

\* C13 as stated: for messages of 3000, 4000, 5000 and 6000 characters and a
\* budget of 12000 the result leaves out the oldest message only, keeps the
\* other three in their order, and its lengths sum to at most 12000.
C13_ExcludesOnlyOldest ==
    C13_Witness =>
        /\ ret[1] = SubSeq(call[1].messages, 2, 4)
        /\ Total(ret[1]) <= 12000

\* C13, amended: for messages of 3000, 4000, 5000 and 6000 characters and a
\* budget of 12000 the result leaves out the two oldest messages and keeps the
\* two newest (5000, 6000) in their order; its lengths sum to 11000, and the
\* 4000-character message would bring the sum to 15000.
C13_KeepsTwoNewest ==
    C13_Witness =>
        /\ ret[1] = SubSeq(call[1].messages, 3, 4)
        /\ Total(ret[1]) = 11000
        /\ Total(ret[1]) <= 12000
        /\ Total(SubSeq(call[1].messages, 2, 4)) = 15000

\* C14: whatever timestamps the clock gave them, the messages appended to a
\* conversation are read back by get_messages as appended: all of them, each
\* once, in insertion order, rows of one second included.
C14_RoundTrip ==
    call = <<>> /\ ret # <<>> =>
        LET rows == RowsOf(messages, StoreCid) IN
        ret[1] = [i \in 1..Len(rows) |->
                    [role |-> rows[i].role, content |-> rows[i].content]]

\* C15: a chat() call that finds the user's deque non-empty before its own
\* enqueue finds a worker processing for the user, sends the notice and spawns
\* nothing; a chat() call spawns a worker only if the deque was empty before
\* its enqueue.
C15_SpawnOnlyOnEmptyQueue ==
    [][\A uid \in Users :
        next_message_id'[uid] # next_message_id[uid] =>
            LET before == QueueOf(USER_QUEUES, uid)
                spawned == Len(tasks'[uid]) > Len(tasks[uid])
            IN  /\ before # <<>> =>
                        /\ IsProcessing(USER_PROCESSING, uid)
                        /\ next_message_id[uid] \in notices'[uid]
                        /\ ~spawned
                /\ spawned => before = <<>>
      ]_vars

\* a step of a worker of uid: one of its tasks moves, none is created
WorkerStep(uid) ==
    /\ Len(tasks'[uid]) = Len(tasks[uid])
    /\ tasks'[uid] # tasks[uid]

\* C16: users are independent: a step of a worker of user a, the steps that end
\* it on an exception and the release of its flag included, changes neither the
\* deque nor the flag nor the tasks of another user b.
C16_UsersIndependent ==
    [][\A a, b \in Users :
        a # b /\ WorkerStep(a) =>
            /\ QueueOf(USER_QUEUES', b) = QueueOf(USER_QUEUES, b)
            /\ IsProcessing(USER_PROCESSING', b) = IsProcessing(USER_PROCESSING, b)
            /\ tasks'[b] = tasks[b]
      ]_vars

\* a worker of a is suspended on the backend call, and b, whose worker took
\* its request after a's worker took a's, has its answer
C16_Witness ==
    \E a, b \in Users : \E t \in TaskIds(a) :
        /\ a # b
        /\ tasks[a][t].pc = "backend"
        /\ delivered[b] # {}
        /\ b \in DOMAIN user_settings
        /\ get_settings(user_settings, b).cid > tasks[a][t].cid

\* C17: the worker's last loop test and the release of the flag are one step,
\* so no chat() runs between them: while no call has raised, a request never
\* sits in the deque with the flag unset and no worker left to take it (every
\* such request has a task that is created or running).
C17_NoStrandedRequest ==
    NoFault =>
        \A uid \in Users :
            QueueOf(USER_QUEUES, uid) # <<>> /\ ~IsProcessing(USER_PROCESSING, uid)
                => LiveTasks(uid) # {}

\* a worker has left through the empty loop test and released the flag, and a
\* request that chat() queued after that has its own task
C17_Witness ==
    /\ NoFault
    /\ \E uid \in Users :
        /\ \E t \in TaskIds(uid) : tasks[uid][t].pc = "done"
        /\ QueueOf(USER_QUEUES, uid) # <<>>
        /\ ~IsProcessing(USER_PROCESSING, uid)
        /\ \E t \in TaskIds(uid) : tasks[uid][t].pc = "created"

Max(S) == CHOOSE x \in S : \A y \in S : y <= x

\* C18: after a worker of a user ended on an exception with requests left in
\* the deque, the user's next chat() call, finding no worker at work, spawns a
\* new one, and the requests left behind are processed first, in the order
\* they were queued in, before the request of that call: the backend is called
\* for a request only when each request queued before it has been answered or
\* has failed in its turn.
C18_RecoveryInOrder ==
    [][\A uid \in Users :
        /\ left_behind[uid] # {}
        /\ Cardinality({t \in TaskIds(uid) : Failed(tasks[uid][t])}) = 1
        => LET new == Max(left_behind[uid]) + 1 IN
           /\ (/\ next_message_id[uid] = new
               /\ next_message_id'[uid] = new + 1
               /\ LiveTasks(uid) = {})
                => Len(tasks'[uid]) = Len(tasks[uid]) + 1
           /\ \A r1, r2 \in left_behind[uid] \cup {new} :
                r1 < r2 /\ next_message_id'[uid] > new /\ r2 \in backend_calls'[uid]
                => \/ r1 \in delivered'[uid]
                   \/ \E t \in TaskIds(uid) :
                        /\ Failed(tasks'[uid][t])
                        /\ tasks'[uid][t].item.message_id = r1
      ]_vars

\* C19: the list of messages handed to call_lm_chat is never empty and ends
\* with the user message of the request being processed, also when /clear ran
\* while the worker awaited the sending of its "Thinking..." message (stated
\* for a user with a single worker task).
C19_BackendGetsTheRequest ==
    \A uid \in Users : \A t \in TaskIds(uid) :
        Len(tasks[uid]) = 1 /\ tasks[uid][t].pc = "backend" =>
            LET msgs == tasks[uid][t].msgs IN
            /\ msgs # <<>>
            /\ msgs[Len(msgs)] =
                    [role |-> "user", content |-> tasks[uid][t].item.text]

\* C20: every row of table messages belongs to a conversation that exists: no
\* worker, one that awaited the backend when /clear ran included, appends to a
\* conversation that clear_user_history has deleted.
C20_NoOrphanMessages ==
    \A c \in DOMAIN messages :
        messages[c] # <<>> => \E conv \in conversations : conv.id = c

====
